---- MODULE Spec2Model ----
(***************************************************************************)
(* A model of mhcnames: the species registry and its lookups               *)
(* (mhcnames/species.py), the per-species gene tables with their memoized  *)
(* accessors, and the point-mutation parser (mhcnames/mutation.py).        *)
(*                                                                         *)
(* A Python str is a sequence of one-character strings; a dict is a        *)
(* sequence of <<key, value>> pairs in insertion order; a call ends in     *)
(* None, in Some(value) or in Raise(exception).                            *)
(***************************************************************************)
EXTENDS Naturals, Sequences, FiniteSets, TLC

VARIABLES
    raw_gene_ontology_dict,  \* data.gene_ontology: prefix -> ontology
    raw_gene_aliases_dict,   \* data.gene_aliases: prefix -> alias table
    species_dict,            \* prefix -> Species
    species_aliases_dict,    \* alias -> Species
    set_order,               \* iteration order of the set literals of _collect_genes
    self,                    \* the Species object whose gene methods are called
    call,                    \* the last call made: operation and argument
    result,                  \* how the last call ended
    stack                    \* per thread, the frames of the call in progress

vars == <<raw_gene_ontology_dict, raw_gene_aliases_dict, species_dict,
          species_aliases_dict, set_order, self, call, result, stack>>

-----------------------------------------------------------------------------
(* Bounds of the model.                                                    *)

MaxNameLen == 4
MaxDashes == 1
MaxExtraSpecies == 1
MaxAliases == 2

-----------------------------------------------------------------------------
(* Outcomes of a call.                                                     *)

None == [kind |-> "None"]
Some(v) == [kind |-> "Some", v |-> v]
Raise(exc) == [kind |-> "Raise", exc |-> exc]

-----------------------------------------------------------------------------
(* str                                                                     *)

LowerLetters ==
    <<"a","b","c","d","e","f","g","h","i","j","k","l","m",
      "n","o","p","q","r","s","t","u","v","w","x","y","z">>
UpperLetters ==
    <<"A","B","C","D","E","F","G","H","I","J","K","L","M",
      "N","O","P","Q","R","S","T","U","V","W","X","Y","Z">>

UpperChar(c) ==
    IF \E i \in 1..26 : LowerLetters[i] = c
    THEN UpperLetters[CHOOSE i \in 1..26 : LowerLetters[i] = c]
    ELSE c

\* s.upper()
upper(s) == [i \in 1..Len(s) |-> UpperChar(s[i])]

IsNotDash(c) == c # "-"

\* s.replace("-", "")
replace_dash(s) == SelectSeq(s, IsNotDash)

\* "-" in s
ContainsDash(s) == \E i \in 1..Len(s) : s[i] = "-"

\* s[:n]
Slice(s, n) == SubSeq(s, 1, IF n < Len(s) THEN n ELSE Len(s))

\* s.split("-"): the segments between dashes, empty ones included
RECURSIVE split_dash(_)
split_dash(s) ==
    IF ~ContainsDash(s) THEN <<s>>
    ELSE LET i == CHOOSE k \in 1..Len(s) :
                      s[k] = "-" /\ \A j \in 1..(k-1) : s[j] # "-"
         IN <<SubSeq(s, 1, i-1)>> \o split_dash(SubSeq(s, i+1, Len(s)))

\* l[i] for a 0-based index i: IndexError past the end
ListIndex(l, i) == IF i + 1 <= Len(l) THEN Some(l[i+1]) ELSE Raise("IndexError")

-----------------------------------------------------------------------------
(* dict                                                                    *)

DictHas(d, k) == \E i \in 1..Len(d) : d[i][1] = k
DictAt(d, k) == d[CHOOSE i \in 1..Len(d) : d[i][1] = k][2]
\* d.get(k)
DictGet(d, k) == IF DictHas(d, k) THEN Some(DictAt(d, k)) ELSE None
\* d.get(k, default)
DictGetOr(d, k, default) == IF DictHas(d, k) THEN DictAt(d, k) ELSE default
\* d[k] = v: an existing key keeps its place
DictSet(d, k, v) ==
    IF DictHas(d, k)
    THEN [i \in 1..Len(d) |-> IF d[i][1] = k THEN <<k, v>> ELSE d[i]]
    ELSE Append(d, <<k, v>>)
DictKeys(d) == [i \in 1..Len(d) |-> d[i][1]]
DictValues(d) == [i \in 1..Len(d) |-> d[i][2]]

Range(s) == {s[i] : i \in 1..Len(s)}

-----------------------------------------------------------------------------
(* Species and the registry                                                *)

\* Species.__init__: the prefix and three empty cache cells
Species(species_prefix) ==
    [species_prefix |-> species_prefix,
     _genes |-> None, _gene_set |-> None, _expanded_gene_alias_dict |-> None]

exemplar_species ==
    << <<<<"D","L","A">>, <<"C","a","l","u">>>>,
       <<<<"E","L","A">>, <<"E","q","c","a">>>>,
       <<<<"O","L","A">>, <<"O","v","a","r">>>>,
       <<<<"S","L","A">>, <<"S","u","s","c">>>>,
       <<<<"R","T","1">>, <<"R","a","n","o">>>> >>

special_prefixes == Range(DictKeys(exemplar_species))

\* species_dict: one Species per prefix of the gene ontology. A Species in the
\* registry is held by its identity, the prefix it was constructed with.
RECURSIVE build_species_dict(_)
build_species_dict(ontology_dict) ==
    IF ontology_dict = <<>> THEN <<>>
    ELSE LET n == Len(ontology_dict)
             species_prefix == ontology_dict[n][1]
         IN DictSet(build_species_dict(SubSeq(ontology_dict, 1, n-1)),
                    species_prefix, species_prefix)

\* create_species_aliases, first loop: the exemplar redirections
RECURSIVE add_exemplars(_, _, _)
add_exemplars(aliases, sd, k) ==
    IF k = 0 THEN aliases
    ELSE LET group_name == exemplar_species[k][1]
             species_name == exemplar_species[k][2]
         IN DictSet(add_exemplars(aliases, sd, k-1), group_name,
                    DictAt(sd, species_name))

\* create_species_aliases, body of the second loop: the upper-case alias
register_upper(aliases, key, species) ==
    IF upper(key) # key THEN DictSet(aliases, upper(key), species) ELSE aliases

\* create_species_aliases, body of the second loop: the dash-stripped alias
register_upper_no_dash(aliases, key, species) ==
    IF replace_dash(upper(key)) \notin {key, upper(key)}
    THEN DictSet(aliases, replace_dash(upper(key)), species)
    ELSE aliases

\* create_species_aliases, body of the second loop
register_upper_only(aliases, key, species) ==
    register_upper(aliases, key, species)
register_variants(aliases, key, species) ==
    register_upper_no_dash(register_upper(aliases, key, species), key, species)

RECURSIVE add_variants(_, _, _)
add_variants(aliases, sd, k) ==
    IF k = 0 THEN aliases
    ELSE register_variants(add_variants(aliases, sd, k-1), sd[k][1], sd[k][2])

create_species_aliases(sd) ==
    add_variants(add_exemplars(sd, sd, Len(exemplar_species)), sd, Len(sd))

\* find_matching_species: a Species (here its prefix) or None
find_matching_species(name) ==
    IF DictHas(species_dict, name)
    THEN Some(DictAt(species_dict, name))
    ELSE DictGet(species_aliases_dict, replace_dash(upper(name)))

find_matching_species_prefix_no_groups(name) ==
    find_matching_species(name)

find_matching_species_prefix(name) ==
    LET upper_no_dash == replace_dash(upper(name))
    IN IF DictHas(exemplar_species, upper_no_dash)
       THEN Some(upper_no_dash)
       ELSE find_matching_species(name)

\* the lengths tried by infer_species_prefix_substring, in order
PrefixLengthsDescending == <<4, 3, 2>>
PrefixLengths == <<2, 3, 4>>

\* original_prefix = seq[:n]
OriginalPrefixUnsliced(seq, n) == seq
OriginalPrefix(seq, n) == Slice(seq, n)

\* the string handed to find_matching_species_prefix: name[:n]
TestedPrefix(name, seq, n) == Slice(name, n)

\* the guard of the candidate extension: "-" in name
dash_in_name_unguarded(name) == TRUE
dash_in_name(name) == ContainsDash(name)

\* candidate_species_substrings
candidate_species_substrings(name) ==
    IF dash_in_name(name)
    THEN LET parts_split_by_dash == split_dash(name)
             p0 == ListIndex(parts_split_by_dash, 0)
             p1 == ListIndex(parts_split_by_dash, 1)
         IN IF p0.kind = "Raise" THEN p0
            ELSE IF p1.kind = "Raise" THEN p1
            ELSE Some(<<name, p0.v, p0.v \o <<"-">> \o p1.v>>)
    ELSE Some(<<name>>)

\* the two nested loops, flattened: step k tries candidate (k-1) \div 3 + 1
\* with length PrefixLengths[(k-1) % 3 + 1]
RECURSIVE infer_loop(_, _, _)
infer_loop(name, candidates, k) ==
    IF k > Len(candidates) * Len(PrefixLengths) THEN None
    ELSE LET seq == candidates[((k-1) \div Len(PrefixLengths)) + 1]
             n == PrefixLengths[((k-1) % Len(PrefixLengths)) + 1]
             original_prefix == OriginalPrefix(seq, n)
             normalized_prefix == find_matching_species_prefix(TestedPrefix(name, seq, n))
         IN IF normalized_prefix # None
            THEN Some(<<normalized_prefix.v, original_prefix>>)
            ELSE infer_loop(name, candidates, k+1)

infer_species_prefix_substring(name) ==
    LET candidates == candidate_species_substrings(name)
    IN IF candidates.kind = "Raise" THEN candidates
       ELSE infer_loop(name, candidates.v, 1)

-----------------------------------------------------------------------------
(* Species: the gene tables                                                *)

\* Species.gene_ontology: a sequence of <<class tag, members>>; the members of
\* a class I tag are a gene list, those of a class II tag a dict locus -> genes
gene_ontology(obj) == DictGetOr(raw_gene_ontology_dict, obj.species_prefix, <<>>)

\* Species.gene_aliases: a dict alias -> canonical gene name
gene_aliases(obj) == DictGetOr(raw_gene_aliases_dict, obj.species_prefix, <<>>)

Class1Tags == {"I", "Ia", "Ib", "Ic", "Id"}
Class2Tags == {"II", "IIa", "IIb"}

Reverse(s) == [i \in 1..Len(s) |-> s[Len(s) + 1 - i]]

\* the order in which _collect_genes meets the members of its two set literals:
\* that of the interpreter's string hashes, fixed for the life of the process
class1_categories ==
    IF set_order = "ascending" THEN <<"I", "Ia", "Ib", "Ic", "Id">>
    ELSE Reverse(<<"I", "Ia", "Ib", "Ic", "Id">>)
class2_categories ==
    IF set_order = "ascending" THEN <<"II", "IIa", "IIb">>
    ELSE Reverse(<<"II", "IIa", "IIb">>)

RECURSIVE Flatten(_)
Flatten(ss) == IF ss = <<>> THEN <<>> ELSE Head(ss) \o Flatten(Tail(ss))

\* Species._collect_genes
_collect_genes(obj) ==
    LET class1 == [i \in 1..Len(class1_categories) |->
                      DictGetOr(gene_ontology(obj), class1_categories[i], <<>>)]
        class2 == [i \in 1..Len(class2_categories) |->
                      Flatten(DictValues(
                          DictGetOr(gene_ontology(obj), class2_categories[i], <<>>)))]
    IN Flatten(class1) \o Flatten(class2)

\* _create_expanded_gene_aliases, body of the first loop
add_gene(expanded_aliases, gene) ==
    LET e1 == DictSet(expanded_aliases, gene, gene)
        up == upper(gene)
    IN IF up # gene THEN DictSet(e1, up, gene) ELSE e1

\* expanded_alias_set: the spellings registered for one alias
expanded_alias_set_no_upper_no_dash(original_alias) ==
    <<original_alias, replace_dash(original_alias), upper(original_alias)>>
expanded_alias_set(original_alias) ==
    <<original_alias,
      replace_dash(original_alias),
      upper(original_alias),
      upper(replace_dash(original_alias))>>

RECURSIVE set_all(_, _, _)
set_all(d, keys, v) ==
    IF keys = <<>> THEN d ELSE set_all(DictSet(d, Head(keys), v), Tail(keys), v)

\* _create_expanded_gene_aliases, body of the second loop
add_alias(expanded_aliases, original_alias, gene_name) ==
    set_all(expanded_aliases, expanded_alias_set(original_alias), gene_name)

\* one iteration of _create_expanded_gene_aliases: iterations 1..Len(genes)
\* are the first loop, the following ones the second loop
expand_step(expanded_aliases, genes, aliases, i) ==
    IF i <= Len(genes)
    THEN add_gene(expanded_aliases, genes[i])
    ELSE add_alias(expanded_aliases, aliases[i - Len(genes)][1],
                   aliases[i - Len(genes)][2])

RECURSIVE expand_upto(_, _, _)
expand_upto(genes, aliases, i) ==
    IF i = 0 THEN <<>>
    ELSE expand_step(expand_upto(genes, aliases, i-1), genes, aliases, i)

\* Species._create_expanded_gene_aliases, given what self.genes() returned
_create_expanded_gene_aliases(obj, genes) ==
    expand_upto(genes, gene_aliases(obj), Len(genes) + Len(gene_aliases(obj)))

\* Species.genes(): <<the object afterwards, the value returned>>
genes_store(obj, value) == <<[obj EXCEPT !._genes = Some(value)], value>>
genes_call(obj) ==
    IF obj._genes = None
    THEN genes_store(obj, _collect_genes(obj))
    ELSE <<obj, obj._genes.v>>

\* Species.gene_set()
gene_set_store(g) == <<[g[1] EXCEPT !._gene_set = Some(Range(g[2]))], Range(g[2])>>
gene_set_call(obj) ==
    IF obj._gene_set = None
    THEN gene_set_store(genes_call(obj))
    ELSE <<obj, obj._gene_set.v>>

\* Species.expanded_gene_aliases()
expanded_store(obj, value) ==
    <<[obj EXCEPT !._expanded_gene_alias_dict = Some(value)], value>>
expanded_compute(g) == expanded_store(g[1], _create_expanded_gene_aliases(g[1], g[2]))
expanded_gene_aliases_call(obj) ==
    IF obj._expanded_gene_alias_dict = None
    THEN expanded_compute(genes_call(obj))
    ELSE <<obj, obj._expanded_gene_alias_dict.v>>

\* Species.find_matching_gene_name, its last line
expanded_lookup(e, gene_name) == <<e[1], DictGet(e[2], upper(gene_name))>>

\* Species.find_matching_gene_name, given what self.gene_set() returned
find_in_gene_set(s, gene_name) ==
    IF gene_name \in s[2]
    THEN <<s[1], Some(gene_name)>>
    ELSE expanded_lookup(expanded_gene_aliases_call(s[1]), gene_name)

\* Species.find_matching_gene_name: <<the object afterwards, the outcome>>
find_matching_gene_name(obj, gene_name) ==
    find_in_gene_set(gene_set_call(obj), gene_name)

\* the test of get_mhc_class_of_gene on one ontology entry; gene_name is what
\* find_matching_gene_name returned, None included
class_matches(mhc_class, mhc_class_members, gene_name) ==
    IF mhc_class \in Class1Tags
    THEN \E i \in 1..Len(mhc_class_members) : Some(mhc_class_members[i]) = gene_name
    ELSE IF mhc_class \in Class2Tags
    THEN \E i \in 1..Len(mhc_class_members) :
            \/ Some(mhc_class_members[i][1]) = gene_name
            \/ \E j \in 1..Len(mhc_class_members[i][2]) :
                  Some(mhc_class_members[i][2][j]) = gene_name
    ELSE FALSE

\* the first ontology entry, in the ontology's order, that matches
first_class(ontology, hits) ==
    IF hits = {} THEN None
    ELSE Some(ontology[CHOOSE i \in hits : \A j \in hits : i <= j][1])

\* get_mhc_class_of_gene, the scan of the ontology for what
\* find_matching_gene_name returned
scan_ontology(ontology, gene_name) ==
    first_class(ontology,
                {i \in 1..Len(ontology) :
                    class_matches(ontology[i][1], ontology[i][2], gene_name)})

mhc_class_of(f, ontology) == <<f[1], scan_ontology(ontology, f[2])>>

\* Species.get_mhc_class_of_gene: <<the object afterwards, the outcome>>
get_mhc_class_of_gene(obj, gene_name) ==
    mhc_class_of(find_matching_gene_name(obj, gene_name), gene_ontology(obj))

-----------------------------------------------------------------------------
(* The tables the program is started with, and the arguments of the calls. *)

Calu == <<"C","a","l","u">>
Eqca == <<"E","q","c","a">>
Ovar == <<"O","v","a","r">>
Susc == <<"S","u","s","c">>
Rano == <<"R","a","n","o">>

\* Prefixes an ontology may hold besides the exemplar species (which it must
\* hold: create_species_aliases indexes species_dict with each of them).
ExtraPrefixes ==
    { <<"H","-","2">>, <<"h","2">>, <<"h">>, <<"E","l","a">>,
      <<"C","A","L","U">> }

\* sequences without repetition, of at most n members of S
RECURSIVE DistinctSeqs(_, _)
DistinctSeqs(S, n) ==
    IF n = 0 THEN {<<>>}
    ELSE LET shorter == DistinctSeqs(S, n-1)
         IN shorter \cup UNION {{Append(q, x) : x \in S \ Range(q)} : q \in shorter}

\* all strings over the characters S of length at most n
SeqsUpTo(S, n) == UNION {[1..k -> S] : k \in 0..n}

\* the gene tables of the species whose gene methods are called, in the
\* worlds that vary the registry
DefaultGeneOntology ==
    << <<"I", << <<"K">>, <<"D">> >> >>,
       <<"II", << <<<<"A">>, << <<"A","a">>, <<"A","b">> >> >> >> >> >>
DefaultGeneAliases == << << <<"a","-","b">>, <<"A","b">> >> >>

OntologyDictOf(extras, ontology) ==
    << <<Calu, ontology>>, <<Eqca, <<>>>>, <<Ovar, <<>>>>, <<Susc, <<>>>>,
       <<Rano, <<>>>> >> \o [i \in 1..Len(extras) |-> <<extras[i], <<>>>>]

NameChars == {"h", "2", "-"}

LowerChar(c) ==
    IF \E i \in 1..26 : UpperLetters[i] = c
    THEN LowerLetters[CHOOSE i \in 1..26 : UpperLetters[i] = c]
    ELSE c

\* G in upper case, in lower case and capitalised
CaseVariants(G) ==
    { G,
      [i \in 1..Len(G) |-> LowerChar(G[i])],
      [i \in 1..Len(G) |-> IF i = 1 THEN G[i] ELSE LowerChar(G[i])] }

InsertDash(s) ==
    {SubSeq(s, 1, i) \o <<"-">> \o SubSeq(s, i+1, Len(s)) : i \in 0..Len(s)}

RECURSIVE WithDashes(_, _)
WithDashes(S, d) ==
    IF d = 0 THEN S
    ELSE LET fewer == WithDashes(S, d-1)
         IN fewer \cup UNION {InsertDash(s) : s \in fewer}

\* the inputs whose upper-cased, dash-stripped form is an exemplar group key
GroupSpellings ==
    UNION {WithDashes(CaseVariants(G), MaxDashes) : G \in special_prefixes}

\* every prefix a registry may hold, as written, upper-cased and dash-stripped
PrefixSpellings ==
    UNION {{P, upper(P), replace_dash(upper(P))} :
              P \in ExtraPrefixes \cup Range(DictValues(exemplar_species))}

Names == SeqsUpTo(NameChars, MaxNameLen) \cup GroupSpellings \cup PrefixSpellings

NoCall == [op |-> "none", arg |-> <<>>]
\* no call is under way: the caller is between two calls
Idle == call.op = "none"
NoThreads == <<>>

InitSpecies ==
    \E extras \in DistinctSeqs(ExtraPrefixes, MaxExtraSpecies) :
        /\ raw_gene_ontology_dict = OntologyDictOf(extras, DefaultGeneOntology)
        /\ raw_gene_aliases_dict = << <<Calu, DefaultGeneAliases>> >>
        /\ species_dict = build_species_dict(raw_gene_ontology_dict)
        /\ species_aliases_dict = create_species_aliases(species_dict)
        /\ set_order = "ascending"
        /\ self = Species(Calu)
        /\ call = NoCall
        /\ result = None
        /\ stack = NoThreads

tables == <<raw_gene_ontology_dict, raw_gene_aliases_dict, species_dict,
            species_aliases_dict, set_order>>

FindMatchingSpecies ==
    \E name \in Names :
        /\ Idle
        /\ call' = [op |-> "find_matching_species", arg |-> name]
        /\ result' = find_matching_species(name)
        /\ UNCHANGED <<tables, self, stack>>

FindMatchingSpeciesPrefix ==
    \E name \in Names :
        /\ Idle
        /\ call' = [op |-> "find_matching_species_prefix", arg |-> name]
        /\ result' = find_matching_species_prefix(name)
        /\ UNCHANGED <<tables, self, stack>>

InferSpeciesPrefixSubstring ==
    \E name \in Names :
        /\ Idle
        /\ call' = [op |-> "infer_species_prefix_substring", arg |-> name]
        /\ result' = infer_species_prefix_substring(name)
        /\ UNCHANGED <<tables, self, stack>>

GeneTokens ==
    { <<>>, <<"-">>, <<"z","z">>, <<"K">>, <<"k">>, <<"A">>, <<"a">>,
      <<"A","b">>, <<"A","B">>, <<"a","b">>, <<"a","-","b">>, <<"A","-","B">> }

\* a gene method returns: the object keeps what the call cached
GeneCallReturns(op, gene_name, r) ==
    /\ call' = [op |-> op, arg |-> gene_name]
    /\ self' = r[1]
    /\ result' = r[2]
    /\ UNCHANGED <<tables, stack>>

FindMatchingGeneName ==
    \E gene_name \in GeneTokens :
        /\ Idle
        /\ GeneCallReturns("find_matching_gene_name", gene_name,
                           find_matching_gene_name(self, gene_name))

GetMhcClassOfGene ==
    \E gene_name \in GeneTokens :
        /\ Idle
        /\ GeneCallReturns("get_mhc_class_of_gene", gene_name,
                           get_mhc_class_of_gene(self, gene_name))

\* the caller takes the outcome and is free to make its next call
Return ==
    /\ ~Idle
    /\ call' = NoCall
    /\ result' = None
    /\ UNCHANGED <<tables, self, stack>>

\* the gene tables of the worlds that vary them: class I genes under one or
\* two tags, a class II locus, in either order of the ontology's keys
K == <<"K">>
AB == <<"A","B">>
Ab == <<"A","b">>
LocusA == <<"A">>

Class1Parts ==
    { <<>>,
      << <<"I", <<K>>>> >>,
      << <<"Ia", <<K>>>>, <<"Ib", <<AB>>>> >> }
Class2Parts ==
    { <<>>,
      << <<"II", << <<LocusA, <<Ab>>>> >> >> >> }
GeneOntologies ==
    {c1 \o c2 : c1 \in Class1Parts, c2 \in Class2Parts}
        \cup {c2 \o c1 : c1 \in Class1Parts, c2 \in Class2Parts}

AliasSpellings == { <<"a","-","b">>, <<"a","b">>, <<"A">> }
CanonicalNames == {K, Ab}

\* a dict has each key once
AliasTables ==
    {t \in DistinctSeqs(AliasSpellings \X CanonicalNames, MaxAliases) :
        \A i, j \in 1..Len(t) : t[i][1] = t[j][1] => i = j}

InitGenes ==
    \E ontology \in GeneOntologies, aliases \in AliasTables,
       order \in {"ascending", "descending"} :
        /\ raw_gene_ontology_dict = OntologyDictOf(<<>>, ontology)
        /\ raw_gene_aliases_dict = << <<Calu, aliases>> >>
        /\ species_dict = build_species_dict(raw_gene_ontology_dict)
        /\ species_aliases_dict = create_species_aliases(species_dict)
        /\ set_order = order
        /\ self = Species(Calu)
        /\ call = NoCall
        /\ result = None
        /\ stack = NoThreads

-----------------------------------------------------------------------------
(* Mutation                                                                *)

\* Mutation.__init__
Mutation(pos, aa_original, aa_mutant) ==
    [pos |-> pos, aa_original |-> aa_original, aa_mutant |-> aa_mutant]

Digits == <<"0","1","2","3","4","5","6","7","8","9">>

\* "%d" % pos, for pos >= 0
RECURSIVE format_d(_)
format_d(pos) ==
    IF pos < 10 THEN <<Digits[pos + 1]>>
    ELSE format_d(pos \div 10) \o <<Digits[(pos % 10) + 1]>>

\* Mutation.normalized_string
normalized_string(m) == m.aa_original \o format_d(m.pos) \o m.aa_mutant

\* what a compiled regular expression object offers by name
PatternAttributes ==
    {"flags", "groupindex", "groups", "pattern", "findall", "finditer",
     "fullmatch", "match", "scanner", "search", "split", "sub", "subn"}

IsUpperLetter(c) == \E i \in 1..26 : UpperLetters[i] = c
IsDigit(c) == \E i \in 1..10 : Digits[i] = c

\* int(d) for a one-digit string
int_of_digit(c) == (CHOOSE i \in 1..10 : Digits[i] = c) - 1

\* mutation_regex, "([A-Z])(\d)([A-Z])", matched against the whole of seq
mutation_regex_matches(seq) ==
    /\ Len(seq) = 3
    /\ IsUpperLetter(seq[1])
    /\ IsDigit(seq[2])
    /\ IsUpperLetter(seq[3])

\* Mutation.parse after seq = seq.upper(): the attribute full_match is looked
\* up on the compiled pattern before anything is matched
parse_upper(seq) ==
    IF "full_match" \notin PatternAttributes THEN Raise("AttributeError")
    ELSE IF ~mutation_regex_matches(seq) THEN Raise("AlleleParseError")
    ELSE Some(Mutation(int_of_digit(seq[2]), <<seq[1]>>, <<seq[3]>>))

\* Mutation.parse
parse(seq) == parse_upper(upper(seq))

MaxTextLen == 5
MaxPos == 9
MutationChars == {"A", "g", "1", "0"}
AminoAcids == {<<"A">>, <<"G">>, <<"N">>}
MutationTexts == SeqsUpTo(MutationChars, MaxTextLen)
Mutations ==
    {Mutation(pos, a, b) : pos \in 0..MaxPos, a \in AminoAcids, b \in AminoAcids}

InitMutation ==
    /\ raw_gene_ontology_dict = OntologyDictOf(<<>>, DefaultGeneOntology)
    /\ raw_gene_aliases_dict = << <<Calu, DefaultGeneAliases>> >>
    /\ species_dict = build_species_dict(raw_gene_ontology_dict)
    /\ species_aliases_dict = create_species_aliases(species_dict)
    /\ set_order = "ascending"
    /\ self = Species(Calu)
    /\ call = NoCall
    /\ result = None
    /\ stack = NoThreads

MutationParse ==
    \E text \in MutationTexts :
        /\ Idle
        /\ call' = [op |-> "Mutation.parse", arg |-> text]
        /\ result' = parse(text)
        /\ UNCHANGED <<tables, self, stack>>

\* a Mutation is constructed, rendered and the rendering parsed
MutationRoundTrip ==
    \E m \in Mutations :
        /\ Idle
        /\ call' = [op |-> "Mutation.parse(m.normalized_string())", arg |-> m]
        /\ result' = parse(normalized_string(m))
        /\ UNCHANGED <<tables, self, stack>>

NextMutation ==
    \/ MutationParse
    \/ MutationRoundTrip
    \/ Return

SpecMutation == InitMutation /\ [][NextMutation]_vars

-----------------------------------------------------------------------------
(* Threads sharing one Species: every method is a frame on its caller's     *)
(* stack, and a step is what a thread does between two accesses to the     *)
(* object's cache cells.                                                   *)

Threads == {"t1", "t2"}

Frame(fn, arg) ==
    [fn |-> fn, pc |-> "enter", arg |-> arg, genes |-> <<>>, acc |-> <<>>, i |-> 0]

NoFrames == [frames |-> <<>>, ret |-> None, last |-> "none"]

Top(t) == stack[t].frames[Len(stack[t].frames)]
Running(t, fn, pc) ==
    /\ stack[t].frames # <<>>
    /\ Top(t).fn = fn
    /\ Top(t).pc = pc

SetTop(frames, frame) == [frames EXCEPT ![Len(frames)] = frame]
Pop(frames) == SubSeq(frames, 1, Len(frames) - 1)

\* the running frame moves to pc
Goto(t, pc) ==
    stack' = [stack EXCEPT ![t].frames = SetTop(@, [Top(t) EXCEPT !.pc = pc])]

\* the running frame calls fn(arg) and will go on at pc
Call(t, pc, fn, arg) ==
    stack' = [stack EXCEPT
                 ![t].frames = Append(SetTop(@, [Top(t) EXCEPT !.pc = pc]),
                                      Frame(fn, arg))]

\* the running frame returns value to its caller
ReturnValue(t, value) ==
    stack' = [stack EXCEPT
                 ![t] = [frames |-> Pop(stack[t].frames),
                         ret |-> value,
                         last |-> IF Len(stack[t].frames) = 1
                                  THEN Top(t).fn ELSE "none"]]

MemoTokens == { <<"K">>, <<"a","b">> }
MemoCalls ==
    { <<fn, <<>> >> : fn \in {"genes", "gene_set", "expanded_gene_aliases"} }
        \cup { <<fn, gene_name>> :
                  fn \in {"find_matching_gene_name", "get_mhc_class_of_gene"},
                  gene_name \in MemoTokens }

\* a thread with nothing under way calls a method of the shared Species
Invoke(t) ==
    \E c \in MemoCalls :
        /\ stack[t].frames = <<>>
        /\ stack' = [stack EXCEPT ![t] = [frames |-> <<Frame(c[1], c[2])>>,
                                          ret |-> None, last |-> "none"]]
        /\ UNCHANGED <<tables, self, call, result>>

\* genes(): if self._genes is None
GenesCheck(t) ==
    /\ Running(t, "genes", "enter")
    /\ Goto(t, IF self._genes = None THEN "store" ELSE "return")
    /\ UNCHANGED <<tables, self, call, result>>

\* genes(): self._genes = self._collect_genes()
GenesStore(t) ==
    /\ Running(t, "genes", "store")
    /\ self' = genes_store(self, _collect_genes(self))[1]
    /\ Goto(t, "return")
    /\ UNCHANGED <<tables, call, result>>

\* genes(): return self._genes
GenesReturn(t) ==
    /\ Running(t, "genes", "return")
    /\ ReturnValue(t, self._genes.v)
    /\ UNCHANGED <<tables, self, call, result>>

\* gene_set(): if self._gene_set is None, on to self.genes()
GeneSetCheck(t) ==
    /\ Running(t, "gene_set", "enter")
    /\ IF self._gene_set = None
       THEN Call(t, "store", "genes", <<>>)
       ELSE Goto(t, "return")
    /\ UNCHANGED <<tables, self, call, result>>

\* gene_set(): self._gene_set = set(what genes() returned)
GeneSetStore(t) ==
    /\ Running(t, "gene_set", "store")
    /\ self' = gene_set_store(<<self, stack[t].ret>>)[1]
    /\ Goto(t, "return")
    /\ UNCHANGED <<tables, call, result>>

\* gene_set(): return self._gene_set
GeneSetReturn(t) ==
    /\ Running(t, "gene_set", "return")
    /\ ReturnValue(t, self._gene_set.v)
    /\ UNCHANGED <<tables, self, call, result>>

\* expanded_gene_aliases(): if self._expanded_gene_alias_dict is None, on to
\* self._create_expanded_gene_aliases()
ExpandedCheck(t) ==
    /\ Running(t, "expanded_gene_aliases", "enter")
    /\ IF self._expanded_gene_alias_dict = None
       THEN Call(t, "store", "_create_expanded_gene_aliases", <<>>)
       ELSE Goto(t, "return")
    /\ UNCHANGED <<tables, self, call, result>>

\* expanded_gene_aliases(): the assignment to self._expanded_gene_alias_dict
ExpandedStore(t) ==
    /\ Running(t, "expanded_gene_aliases", "store")
    /\ self' = expanded_store(self, stack[t].ret)[1]
    /\ Goto(t, "return")
    /\ UNCHANGED <<tables, call, result>>

\* expanded_gene_aliases(): return self._expanded_gene_alias_dict
ExpandedReturn(t) ==
    /\ Running(t, "expanded_gene_aliases", "return")
    /\ ReturnValue(t, self._expanded_gene_alias_dict.v)
    /\ UNCHANGED <<tables, self, call, result>>

\* _create_expanded_gene_aliases: expanded_aliases = {}, on to self.genes()
CreateEnter(t) ==
    /\ Running(t, "_create_expanded_gene_aliases", "enter")
    /\ Call(t, "iterate", "genes", <<>>)
    /\ UNCHANGED <<tables, self, call, result>>

\* _create_expanded_gene_aliases: the first loop takes what genes() returned
CreateIterate(t) ==
    /\ Running(t, "_create_expanded_gene_aliases", "iterate")
    /\ stack' = [stack EXCEPT ![t].frames =
                    SetTop(@, [Top(t) EXCEPT !.pc = "loop",
                                             !.genes = stack[t].ret])]
    /\ UNCHANGED <<tables, self, call, result>>

\* the two loops of _create_expanded_gene_aliases are over once they have
\* made n iterations
loop_done_one_early(i, n) == i + 1 >= n
loop_done(i, n) == i >= n

iterations(t) == Len(Top(t).genes) + Len(gene_aliases(self))

\* _create_expanded_gene_aliases: one iteration, on the local dictionary
CreateLoop(t) ==
    /\ Running(t, "_create_expanded_gene_aliases", "loop")
    /\ ~loop_done(Top(t).i, iterations(t))
    /\ stack' = [stack EXCEPT ![t].frames =
                    SetTop(@, [Top(t) EXCEPT
                                  !.acc = expand_step(@, Top(t).genes,
                                                      gene_aliases(self),
                                                      Top(t).i + 1),
                                  !.i = @ + 1])]
    /\ UNCHANGED <<tables, self, call, result>>

\* _create_expanded_gene_aliases: return expanded_aliases
CreateReturn(t) ==
    /\ Running(t, "_create_expanded_gene_aliases", "loop")
    /\ loop_done(Top(t).i, iterations(t))
    /\ ReturnValue(t, Top(t).acc)
    /\ UNCHANGED <<tables, self, call, result>>

\* find_matching_gene_name: on to self.gene_set()
FindEnter(t) ==
    /\ Running(t, "find_matching_gene_name", "enter")
    /\ Call(t, "test", "gene_set", <<>>)
    /\ UNCHANGED <<tables, self, call, result>>

\* find_matching_gene_name: if gene_name in the set, return it, else on to
\* self.expanded_gene_aliases()
FindTest(t) ==
    /\ Running(t, "find_matching_gene_name", "test")
    /\ IF Top(t).arg \in stack[t].ret
       THEN ReturnValue(t, Some(Top(t).arg))
       ELSE Call(t, "lookup", "expanded_gene_aliases", <<>>)
    /\ UNCHANGED <<tables, self, call, result>>

\* find_matching_gene_name: .get(gene_name.upper()) on the dictionary returned
FindLookup(t) ==
    /\ Running(t, "find_matching_gene_name", "lookup")
    /\ ReturnValue(t, expanded_lookup(<<self, stack[t].ret>>, Top(t).arg)[2])
    /\ UNCHANGED <<tables, self, call, result>>

\* get_mhc_class_of_gene: on to self.find_matching_gene_name(gene_name)
ClassEnter(t) ==
    /\ Running(t, "get_mhc_class_of_gene", "enter")
    /\ Call(t, "scan", "find_matching_gene_name", Top(t).arg)
    /\ UNCHANGED <<tables, self, call, result>>

\* get_mhc_class_of_gene: the scan of the ontology
ClassScan(t) ==
    /\ Running(t, "get_mhc_class_of_gene", "scan")
    /\ ReturnValue(t, scan_ontology(gene_ontology(self), stack[t].ret))
    /\ UNCHANGED <<tables, self, call, result>>

InitMemo ==
    \E order \in {"ascending", "descending"} :
        /\ raw_gene_ontology_dict = OntologyDictOf(<<>>, DefaultGeneOntology)
        /\ raw_gene_aliases_dict = << <<Calu, DefaultGeneAliases>> >>
        /\ species_dict = build_species_dict(raw_gene_ontology_dict)
        /\ species_aliases_dict = create_species_aliases(species_dict)
        /\ set_order = order
        /\ self = Species(Calu)
        /\ call = NoCall
        /\ result = None
        /\ stack = [t \in Threads |-> NoFrames]

NextMemo ==
    \E t \in Threads :
        \/ Invoke(t)
        \/ GenesCheck(t)
        \/ GenesStore(t)
        \/ GenesReturn(t)
        \/ GeneSetCheck(t)
        \/ GeneSetStore(t)
        \/ GeneSetReturn(t)
        \/ ExpandedCheck(t)
        \/ ExpandedStore(t)
        \/ ExpandedReturn(t)
        \/ CreateEnter(t)
        \/ CreateIterate(t)
        \/ CreateLoop(t)
        \/ CreateReturn(t)
        \/ FindEnter(t)
        \/ FindTest(t)
        \/ FindLookup(t)
        \/ ClassEnter(t)
        \/ ClassScan(t)

SpecMemo == InitMemo /\ [][NextMemo]_vars

Init == InitSpecies

Next ==
    \/ FindMatchingSpecies
    \/ FindMatchingSpeciesPrefix
    \/ InferSpeciesPrefixSubstring
    \/ FindMatchingGeneName
    \/ GetMhcClassOfGene
    \/ Return

Spec == Init /\ [][Next]_vars

NextSpecies ==
    \/ FindMatchingSpecies
    \/ FindMatchingSpeciesPrefix
    \/ InferSpeciesPrefixSubstring
    \/ Return

SpecSpecies == InitSpecies /\ [][NextSpecies]_vars

NextGenes ==
    \/ FindMatchingGeneName
    \/ GetMhcClassOfGene
    \/ Return

SpecGenes == InitGenes /\ [][NextGenes]_vars

-----------------------------------------------------------------------------
(* Properties of the species lookups                                       *)

Min(S) == CHOOSE x \in S : \A y \in S : x <= y

Norm(s) == replace_dash(upper(s))

\* The reference procedure of C1: the candidates are the name and, for a name
\* with a dash, its first segment and its first two segments; each candidate
\* is sliced to 2, 3 and 4 characters and the slice of the candidate is tested.
RefCandidates(name) ==
    IF ContainsDash(name)
    THEN <<name, split_dash(name)[1],
           split_dash(name)[1] \o <<"-">> \o split_dash(name)[2]>>
    ELSE <<name>>

RefSlice(name, k) == Slice(RefCandidates(name)[((k-1) \div 3) + 1], <<2, 3, 4>>[((k-1) % 3) + 1])

RefHits(name) ==
    {k \in 1..(3 * Len(RefCandidates(name))) :
        find_matching_species_prefix(RefSlice(name, k)) # None}

RefInfer(name) ==
    IF RefHits(name) = {} THEN None
    ELSE Some(<<find_matching_species_prefix(RefSlice(name, Min(RefHits(name)))).v,
                RefSlice(name, Min(RefHits(name)))>>)

LeadingHits(name) ==
    {m \in {2, 3, 4} : find_matching_species_prefix(Slice(name, m)) # None}

\* C2: the result is (find_matching_species_prefix(name[:m]), name[:m]) for
\* the smallest m in {2,3,4} whose leading substring resolves, and not-found
\* exactly when there is none.
C2_InferLeadingSubstring ==
    call.op = "infer_species_prefix_substring" =>
        result = IF LeadingHits(call.arg) = {} THEN None
                 ELSE Some(<<find_matching_species_prefix(
                                 Slice(call.arg, Min(LeadingHits(call.arg)))).v,
                             Slice(call.arg, Min(LeadingHits(call.arg)))>>)

\* C2's case: a two-character prefix followed at once, with no dash, by more
\* characters; the two characters are the match and the rest is left over.
C2_Witness ==
    /\ call.op = "infer_species_prefix_substring"
    /\ ~ContainsDash(call.arg)
    /\ Len(call.arg) > 2
    /\ result # None
    /\ result.v[2] = Slice(call.arg, 2)

RegistryKeys == Range(DictKeys(species_dict))

\* the three spellings of a registered prefix that C3 looks up
KeyLookups(P) == {P, upper(P), replace_dash(upper(P))}

\* no other registered prefix has the same upper-cased, dash-stripped form
Unambiguous(P) == \A Q \in RegistryKeys : Norm(Q) = Norm(P) => Q = P

\* C3 as stated: for every key P of species_dict, looking up P, P.upper() and
\* P.upper().replace("-", "") all return species_dict[P].
C3_Original ==
    call.op = "find_matching_species" =>
        \A P \in RegistryKeys :
            call.arg \in KeyLookups(P) => result = Some(DictAt(species_dict, P))

\* C3 amended: the same for every key P that no other key of species_dict
\* shares its upper-cased, dash-stripped form with.
C3_CaseDashInsensitive ==
    call.op = "find_matching_species" =>
        \A P \in RegistryKeys :
            (Unambiguous(P) /\ call.arg \in KeyLookups(P))
                => result = Some(DictAt(species_dict, P))

\* C3's case: a registered prefix with a dash and a lower-case letter looked
\* up by its upper-cased, dash-stripped form.
C3_Witness ==
    /\ call.op = "find_matching_species"
    /\ \E P \in RegistryKeys :
          /\ Unambiguous(P)
          /\ call.arg = replace_dash(upper(P))
          /\ call.arg \notin {P, upper(P)}
          /\ result = Some(DictAt(species_dict, P))

\* the exemplar table as the claim gives it
GroupExemplar(G) ==
    CASE G = <<"D","L","A">> -> <<"C","a","l","u">>
      [] G = <<"E","L","A">> -> <<"E","q","c","a">>
      [] G = <<"O","L","A">> -> <<"O","v","a","r">>
      [] G = <<"S","L","A">> -> <<"S","u","s","c">>
      [] G = <<"R","T","1">> -> <<"R","a","n","o">>
GroupKeys ==
    { <<"D","L","A">>, <<"E","L","A">>, <<"O","L","A">>, <<"S","L","A">>,
      <<"R","T","1">> }

\* C4 as stated: an input whose normal form is a group key G resolves, as a
\* prefix, to G itself and, as a Species, to the exemplar of G.
C4_Original ==
    Norm(call.arg) \in GroupKeys =>
        /\ call.op = "find_matching_species_prefix" => result = Some(Norm(call.arg))
        /\ call.op = "find_matching_species" =>
              result = Some(GroupExemplar(Norm(call.arg)))

\* C4 amended: the prefix is G always; the Species is the exemplar's, with the
\* exemplar's gene ontology, when no prefix of species_dict has G as its
\* upper-cased, dash-stripped form.
C4_ExemplarIsolation ==
    Norm(call.arg) \in GroupKeys =>
        /\ call.op = "find_matching_species_prefix" => result = Some(Norm(call.arg))
        /\ (/\ call.op = "find_matching_species"
            /\ \A Q \in RegistryKeys : Norm(Q) # Norm(call.arg))
              => /\ result = Some(GroupExemplar(Norm(call.arg)))
                 /\ gene_ontology(Species(result.v)) =
                        DictAt(raw_gene_ontology_dict, GroupExemplar(Norm(call.arg)))

\* C4's case: a group key written in lower case with a dash, resolved to the
\* exemplar species.
C4_Witness ==
    /\ call.op = "find_matching_species"
    /\ Norm(call.arg) \in GroupKeys
    /\ ContainsDash(call.arg)
    /\ upper(call.arg) # call.arg
    /\ result = Some(GroupExemplar(Norm(call.arg)))

\* C9: no lookup ends in an error: each returns a result or None.
C9_LookupsNeverRaise ==
    call.op \in {"find_matching_species", "find_matching_species_prefix",
                 "infer_species_prefix_substring", "find_matching_gene_name",
                 "get_mhc_class_of_gene"}
        => result.kind \in {"None", "Some"}

\* C9's case: a name made only of dashes, given to the inference, and an
\* unknown token: not-found.
C9_Witness ==
    /\ call.op = "infer_species_prefix_substring"
    /\ call.arg # <<>>
    /\ replace_dash(call.arg) = <<>>
    /\ result = None

-----------------------------------------------------------------------------
(* Properties of the gene lookups                                          *)

\* the four spellings of an alias that C5 looks up
FourSpellings(alias) ==
    {alias, replace_dash(alias), upper(alias), upper(replace_dash(alias))}

AliasPairs == Range(gene_aliases(self))

\* C5 as stated: each of the four spellings of every alias resolves to the
\* alias's canonical name, whatever else the species holds.
C5_Original ==
    call.op = "find_matching_gene_name" =>
        \A pair \in AliasPairs :
            call.arg \in FourSpellings(pair[1]) => result = Some(pair[2])

\* the spelling v of the alias pair clashes with nothing: it is no gene of
\* the species other than the canonical name, and no other alias with another
\* canonical name has a spelling equal to v upper-cased
Unclashed(v, pair) ==
    /\ v \in Range(_collect_genes(self)) => v = pair[2]
    /\ \A other \in AliasPairs :
          other[2] # pair[2] => upper(v) \notin FourSpellings(other[1])

\* C5 amended: each of the four spellings of an alias resolves to the alias's
\* canonical name, provided the spelling is not itself another gene of the
\* species and no alias with a different canonical name has a spelling equal
\* to its upper-cased form.
C5_AliasExpansionComplete ==
    call.op = "find_matching_gene_name" =>
        \A pair \in AliasPairs :
            (call.arg \in FourSpellings(pair[1]) /\ Unclashed(call.arg, pair))
                => result = Some(pair[2])

\* C5's case: an alias with a dash and lower-case letters, looked up by its
\* upper-cased, dash-stripped spelling.
C5_Witness ==
    /\ call.op = "find_matching_gene_name"
    /\ \E pair \in AliasPairs :
          /\ call.arg = upper(replace_dash(pair[1]))
          /\ call.arg \notin {pair[1], replace_dash(pair[1]), upper(pair[1])}
          /\ Unclashed(call.arg, pair)
          /\ result = Some(pair[2])

\* the locus keys of the class II tags of the species' ontology
LocusKeys ==
    UNION {Range(DictKeys(gene_ontology(self)[i][2])) :
              i \in {j \in 1..Len(gene_ontology(self)) :
                        gene_ontology(self)[j][1] \in Class2Tags}}

\* C8: get_mhc_class_of_gene of a class II locus key returns a class tag, not
\* not-found.
C8_LocusNameMatches ==
    (call.op = "get_mhc_class_of_gene" /\ call.arg \in LocusKeys)
        => result # None

-----------------------------------------------------------------------------
(* Properties of the mutation parser                                       *)

\* C6: parsing the normalized string of a Mutation with a one-digit position
\* gives back its pos, aa_original and aa_mutant.
C6_RoundTrip ==
    (call.op = "Mutation.parse(m.normalized_string())" /\ call.arg.pos <= 9)
        => /\ result.kind = "Some"
           /\ result.v.pos = call.arg.pos
           /\ result.v.aa_original = call.arg.aa_original
           /\ result.v.aa_mutant = call.arg.aa_mutant

\* C7: a text that, upper-cased, is not letter, digit, letter in full makes
\* Mutation.parse fail with AlleleParseError and in no other way.
C7_MalformedRaisesAlleleParseError ==
    (call.op = "Mutation.parse" /\ ~mutation_regex_matches(upper(call.arg)))
        => result = Raise("AlleleParseError")

-----------------------------------------------------------------------------
(* Properties of the lazily filled caches under concurrent callers         *)

\* the three cached values as functions of the species' tables alone
PureGenes == _collect_genes(Species(self.species_prefix))
PureGeneSet == Range(PureGenes)
PureExpanded == _create_expanded_gene_aliases(Species(self.species_prefix), PureGenes)

CellsPure ==
    /\ self._genes \in {None, Some(PureGenes)}
    /\ self._gene_set \in {None, Some(PureGeneSet)}
    /\ self._expanded_gene_alias_dict \in {None, Some(PureExpanded)}

ReturnsPure ==
    \A t \in Threads :
        /\ stack[t].last = "genes" => stack[t].ret = PureGenes
        /\ stack[t].last = "gene_set" => stack[t].ret = PureGeneSet
        /\ stack[t].last = "expanded_gene_aliases" => stack[t].ret = PureExpanded

CellsKeep ==
    /\ self._genes # None => self'._genes = self._genes
    /\ self._gene_set # None => self'._gene_set = self._gene_set
    /\ self._expanded_gene_alias_dict # None
          => self'._expanded_gene_alias_dict = self._expanded_gene_alias_dict

\* C10: under every interleaving of the callers of a Species, each cache cell
\* is empty or holds the complete value that the species' gene ontology and
\* gene aliases determine, every genes(), gene_set() and
\* expanded_gene_aliases() call returns that value, and a filled cell keeps it.
C10_MemoizationStable ==
    /\ [](CellsPure /\ ReturnsPure)
    /\ [][CellsKeep]_vars

\* two callers raced on the first access of expanded_gene_aliases(): one has
\* stored and returned, the other passed the emptiness test before that and is
\* about to store its own dictionary
C10_Witness ==
    \E t, u \in Threads :
        /\ t # u
        /\ stack[t].last = "expanded_gene_aliases"
        /\ stack[t].ret = PureExpanded
        /\ stack[u].frames # <<>>
        /\ Top(u).fn = "expanded_gene_aliases"
        /\ Top(u).pc = "store"
        /\ self._expanded_gene_alias_dict # None

====
